---- MODULE Spec2Model ----
(***************************************************************************)
(* Model of the run_webset_research tool handler                           *)
(* (src/src/tools/websetResearch.ts): credential check, construction of    *)
(* the creation payload, the creation call, and the bounded polling loop   *)
(* with its inner and outer catch blocks.                                  *)
(*                                                                         *)
(* An optional JavaScript value is a sequence of length at most one:       *)
(* <<>> is undefined, <<v>> is the value v.  A JavaScript object is a      *)
(* function from its keys; the object without keys is <<>>.                *)
(***************************************************************************)
EXTENDS Integers, Sequences, FiniteSets, TLC

VARIABLES EXA_API_KEY, created, pc, request, args, websetParams, websetId,
          attempt, status, itemsResponse, timer, caught, result, calls, seen

vars == <<EXA_API_KEY, created, pc, request, args, websetParams, websetId,
          attempt, status, itemsResponse, timer, caught, result, calls, seen>>

-----------------------------------------------------------------------------
(* Bounds of the model *)

\* longest item list the remote returns
MaxItems == 1

\* value at which the counters of issued calls and delays stop counting
MaxCount == 14

\* handler invocations that exist in the model
Invocations == {1, 2}

\* invocations that are started under Spec
Solo == {1}

-----------------------------------------------------------------------------
(* Program constants *)

maxAttempts == 12

pollInterval == 5000

-----------------------------------------------------------------------------
(* JavaScript values *)

Undefined == <<>>

Some(v) == <<v>>

IsDefined(o) == o # Undefined

Val(o) == o[1]

EmptyObject == <<>>

\* truthiness of an optional number, string, object/array
TruthyNumber(o) == IsDefined(o) /\ Val(o) # 0

TruthyString(o) == IsDefined(o) /\ Val(o) # ""

TruthyObject(o) == IsDefined(o)

\* ...(cond && obj): spreading a falsy value adds no key
SpreadIf(cond, obj) == IF cond THEN obj ELSE EmptyObject

-----------------------------------------------------------------------------
(* Input schema (lines 23-32) *)

Queries == {"q"}

Counts == {0, 50}

Criterias == {"", "verified"}

EntityTypes == {"", "company"}

enrichmentSchema == {[description |-> "LinkedIn profile", format |-> "text"]}

EnrichmentLists == {<<>>} \cup {<<e>> : e \in enrichmentSchema}

Metadatas == {[source |-> "crm"]}

Opt(S) == {Undefined} \cup {Some(v) : v \in S}

\* the raw arguments the schema accepts
schema ==
    [query : Queries,
     count : Opt(Counts),
     criteria : Opt(Criterias),
     entityType : Opt(EntityTypes),
     enrichments : Opt(EnrichmentLists),
     metadata : Opt(Metadatas),
     waitForCompletion : Opt(BOOLEAN)]

\* variant: no default, an unspecified flag counts as false
waitForCompletionNoDefault(o) == IF IsDefined(o) THEN Val(o) ELSE FALSE

\* z.boolean().optional().default(true)
waitForCompletionDefault(o) == IF IsDefined(o) THEN Val(o) ELSE TRUE

\* the arguments the handler receives: the raw arguments after the schema
\* has filled in the default
SchemaParse(raw) ==
    [raw EXCEPT !.waitForCompletion = waitForCompletionDefault(raw.waitForCompletion)]

-----------------------------------------------------------------------------
(* Creation payload (lines 63-72) *)

\* variant: every optional input is copied into the payload as it is
websetParamsWithPlaceholders(a) ==
    [search |-> [query |-> a.query, count |-> a.count],
     criteria |-> a.criteria,
     entity |-> [type |-> a.entityType],
     enrichments |-> a.enrichments,
     metadata |-> a.metadata]

websetParamsOf(a) ==
    [search |-> [query |-> a.query]
                @@ SpreadIf(TruthyNumber(a.count), [count |-> Val(a.count)])]
    @@ SpreadIf(TruthyString(a.criteria), [criteria |-> Val(a.criteria)])
    @@ SpreadIf(TruthyString(a.entityType), [entity |-> [type |-> Val(a.entityType)]])
    @@ SpreadIf(TruthyObject(a.enrichments) /\ Len(Val(a.enrichments)) > 0,
                [enrichments |-> Val(a.enrichments)])
    @@ SpreadIf(TruthyObject(a.metadata), [metadata |-> Val(a.metadata)])

-----------------------------------------------------------------------------
(* Remote service: what the three endpoints can answer *)

\* the identifier the creation endpoint gives to the n-th job it creates
WebsetIdOf(n) == "ws_" \o ToString(n)

\* ExaWebsetStatusResponse.status, and one value outside the declared union
Statuses == {"running", "completed", "idle", "failed", "error", "pending"}

ExaWebsetItem == [id : {"item_1"}, url : {"https://example.com/1"}]

RECURSIVE SeqsUpTo(_, _)
SeqsUpTo(S, n) ==
    IF n = 0 THEN {<<>>}
    ELSE LET shorter == SeqsUpTo(S, n - 1)
         IN  shorter \cup {Append(q, x) : q \in shorter, x \in S}

ExaWebsetItemsResponse == [items : SeqsUpTo(ExaWebsetItem, MaxItems)]

\* new Error(message)
Error(message) ==
    [isAxiosError |-> FALSE, message |-> message, response |-> Undefined]

\* what a failed axios call rejects with: no response at all, a response
\* with a remote message, a response without one
AxiosErrors ==
    {[isAxiosError |-> TRUE, message |-> "Network Error", response |-> Undefined],
     [isAxiosError |-> TRUE, message |-> "Request failed with status code 500",
      response |-> Some([status |-> 500, data |-> [message |-> "internal error"]])],
     [isAxiosError |-> TRUE, message |-> "Request failed with status code 404",
      response |-> Some([status |-> 404, data |-> EmptyObject])]}

Ok(data) == [ok |-> TRUE, data |-> data]

Rejected(error) == [ok |-> FALSE, error |-> error]

CreateResponses(n) ==
    {Ok([id |-> WebsetIdOf(n + 1)])} \cup {Rejected(e) : e \in AxiosErrors}

StatusResponses ==
    {Ok([status |-> s]) : s \in Statuses} \cup {Rejected(e) : e \in AxiosErrors}

ItemsResponses ==
    {Ok(d) : d \in ExaWebsetItemsResponse} \cup {Rejected(e) : e \in AxiosErrors}

-----------------------------------------------------------------------------
(* JSON.stringify(value, null, 2) for the two shapes the handler prints *)

Quote(s) == "\"" \o s \o "\""

StringifyItem(it) ==
    "    {\n      \"id\": " \o Quote(it.id) \o ",\n      \"url\": " \o Quote(it.url)
    \o "\n    }"

RECURSIVE StringifyItemList(_)
StringifyItemList(q) ==
    IF Len(q) = 0 THEN ""
    ELSE IF Len(q) = 1 THEN StringifyItem(q[1])
    ELSE StringifyItem(q[1]) \o ",\n" \o StringifyItemList(Tail(q))

\* line 120
StringifyItemsResponse(data) ==
    IF Len(data.items) = 0 THEN "{\n  \"items\": []\n}"
    ELSE "{\n  \"items\": [\n" \o StringifyItemList(data.items) \o "\n  ]\n}"

\* lines 90-94
StringifyInitiated(id) ==
    "{\n  \"message\": \"WebSet research initiated successfully.\",\n  \"websetId\": "
    \o Quote(id) \o ",\n  \"status\": \"running\"\n}"

-----------------------------------------------------------------------------
(* Outcomes of the handler *)

TextContent(text) == <<[type |-> "text", text |-> text]>>

\* lines 44-47
ConfigurationError ==
    [content |-> TextContent("Configuration error: EXA_API_KEY is missing."),
     isError |-> TRUE]

\* lines 87-96
InitiatedOutcome(id) == [content |-> TextContent(StringifyInitiated(id))]

\* lines 117-122
ItemsOutcome(data) == [content |-> TextContent(StringifyItemsResponse(data))]

Return(value) == [kind |-> "return", value |-> value]

Throw(error) == [kind |-> "throw", value |-> error]

\* error.response?.status || 'unknown'
statusCodeOf(error) ==
    IF IsDefined(error.response) /\ Val(error.response).status # 0
    THEN ToString(Val(error.response).status)
    ELSE "unknown"

\* variant: the message of the remote is ignored
errorMessageLocalOnly(error) == error.message

\* error.response?.data?.message || error.message
errorMessageOf(error) ==
    IF /\ IsDefined(error.response)
       /\ "message" \in DOMAIN Val(error.response).data
       /\ Val(error.response).data.message # ""
    THEN Val(error.response).data.message
    ELSE error.message

\* variant: only axios errors are converted, any other error escapes
OuterCatchAxiosOnly(error) ==
    IF error.isAxiosError
    THEN Return([content |-> TextContent("WebSet API error (" \o statusCodeOf(error)
                                         \o "): " \o errorMessageOf(error)),
                 isError |-> TRUE])
    ELSE Throw(error)

\* lines 147-162: how the handler completes once an error reaches the outer catch
OuterCatch(error) ==
    IF error.isAxiosError
    THEN Return([content |-> TextContent("WebSet API error (" \o statusCodeOf(error)
                                         \o "): " \o errorMessageOf(error)),
                 isError |-> TRUE])
    ELSE Return([content |-> TextContent("WebSet operation failed: " \o error.message),
                 isError |-> TRUE])

-----------------------------------------------------------------------------
(* Decisions of the handler *)

\* variant: only an unset credential counts as missing
apiKeyUnsetOnly(env) == ~IsDefined(env)

\* line 41-42: process.env.EXA_API_KEY || '' ; !apiKey
apiKeyMissing(env) == ~TruthyString(env)

\* variant: the non-waiting branch is never taken
ReturnsImmediatelyNever(a) == FALSE

\* line 85: if (!waitForCompletion)
ReturnsImmediately(a) == ~a.waitForCompletion

\* variant: a status outside the known ones is treated as a failure
StatusBranchUnknownThrows(s) ==
    IF s = "completed" \/ s = "idle" THEN "fetch"
    ELSE IF s = "running" THEN "sleep"
    ELSE "throw"

\* variant: every status but 'running' and 'error' leads to the items call
StatusBranchFailedFetches(s) ==
    IF s = "completed" \/ s = "idle" \/ s = "failed" THEN "fetch"
    ELSE IF s = "error" THEN "throw"
    ELSE "sleep"

\* variant: 'idle' is not treated as completion
StatusBranchIdleRunning(s) ==
    IF s = "completed" THEN "fetch"
    ELSE IF s = "failed" \/ s = "error" THEN "throw"
    ELSE "sleep"

\* lines 111 and 123: what the handler does with a reported status
StatusBranch(s) ==
    IF s = "completed" \/ s = "idle" THEN "fetch"
    ELSE IF s = "failed" \/ s = "error" THEN "throw"
    ELSE "sleep"

\* line 125
JobFailedError(s) == Error("WebSet research failed with status: " \o s)

\* line 135
AttemptsExhaustedError ==
    Error("Failed to get WebSet status after " \o ToString(maxAttempts) \o " attempts.")

\* line 143
TimedOutError == Error("WebSet research timed out.")

\* variant: the inner catch gives up at the first error
PollCatchNoRetry(att, pollError) ==
    [do |-> "throw", error |-> AttemptsExhaustedError]

\* lines 131-138: the inner catch, entered with the loop counter and the
\* error thrown anywhere inside the inner try
PollCatch(att, pollError) ==
    IF att = maxAttempts
    THEN [do |-> "throw", error |-> AttemptsExhaustedError]
    ELSE [do |-> "sleep", error |-> pollError]

\* variant: the loop runs one attempt too many
LoopConditionOffByOne(att) == att <= maxAttempts + 1

\* line 103: the loop condition
LoopCondition(att) == att <= maxAttempts

\* request URLs (lines 78, 106, 114)
CreateUrl == "/websets/v0/websets/"

StatusUrl(id) == "/websets/v0/websets/" \o id

ItemsUrl(id) == "/websets/v0/websets/" \o id \o "/items"

-----------------------------------------------------------------------------
(* Record of the remote calls and delays an invocation has issued *)

NoCalls ==
    [create |-> 0, status |-> 0, items |-> 0, sleep |-> 0,
     last |-> "none", url |-> "", sinceStatus |-> 0, between |-> 0]

\* one more, up to MaxCount
Count(n) == IF n < MaxCount THEN n + 1 ELSE n

IssueCreate(c) == [c EXCEPT !.create = Count(@), !.last = "create", !.url = CreateUrl]

IssueStatus(c, id) ==
    [c EXCEPT !.status = Count(@), !.last = "status", !.url = StatusUrl(id),
              !.between = c.sinceStatus, !.sinceStatus = 0]

IssueItems(c, id) == [c EXCEPT !.items = Count(@), !.last = "items", !.url = ItemsUrl(id)]

IssueSleep(c) == [c EXCEPT !.sleep = Count(@), !.sinceStatus = Count(@)]

(* Record of what the remote has answered to an invocation:
   resp      kind of the latest answer
   clean     no remote call has been rejected, every status reported before
             the latest one was 'running', and the latest one is 'running'
             or completion-equivalent
   failRep   the latest failure-equivalent status reported, "" if none
   statusErr some status check was rejected
   statusOk  the latest status check was answered, not rejected
   id        the identifier the creation call returned, "" if none *)
NothingSeen ==
    [resp |-> "none", clean |-> TRUE, failRep |-> "", statusErr |-> FALSE,
     statusOk |-> FALSE, id |-> ""]

SeeCreated(o, id) == [o EXCEPT !.resp = "created", !.id = id]

SeeItems(o) == [o EXCEPT !.resp = "items"]

SeeRejected(o, kind) ==
    [o EXCEPT !.resp = kind, !.clean = FALSE,
              !.statusErr = @ \/ kind = "statusErr",
              !.statusOk = @ /\ kind # "statusErr"]

SeeStatus(o, s, previous) ==
    [o EXCEPT !.resp = "status",
              !.statusOk = TRUE,
              !.clean = /\ @
                        /\ previous \in {Undefined, Some("running")}
                        /\ s \in {"running", "completed", "idle"},
              !.failRep = IF s \in {"failed", "error"} THEN s ELSE @]

-----------------------------------------------------------------------------
(* State machine *)

Init ==
    /\ EXA_API_KEY \in Opt({"", "exa-key"})
    /\ created = 0
    /\ pc = [i \in Invocations |-> "idle"]
    /\ request = [i \in Invocations |-> Undefined]
    /\ args = [i \in Invocations |-> Undefined]
    /\ websetParams = [i \in Invocations |-> Undefined]
    /\ websetId = [i \in Invocations |-> Undefined]
    /\ attempt = [i \in Invocations |-> 0]
    /\ status = [i \in Invocations |-> Undefined]
    /\ itemsResponse = [i \in Invocations |-> Undefined]
    /\ timer = [i \in Invocations |-> 0]
    /\ caught = [i \in Invocations |-> Undefined]
    /\ result = [i \in Invocations |-> Undefined]
    /\ calls = [i \in Invocations |-> NoCalls]
    /\ seen = [i \in Invocations |-> NothingSeen]

\* the handler completes: it returns an outcome or lets an error escape
Complete(i, c) ==
    /\ pc' = [pc EXCEPT ![i] = IF c.kind = "return" THEN "returned" ELSE "threw"]
    /\ result' = [result EXCEPT ![i] = Some(c.value)]

\* line 147: an error reaches the outer catch, which binds it and completes
ToOuterCatch(i, error) ==
    /\ caught' = [caught EXCEPT ![i] = Some(error)]
    /\ Complete(i, OuterCatch(error))

\* line 129 / line 137: await sleep(pollInterval)
Sleep(i, line) ==
    /\ pc' = [pc EXCEPT ![i] = line]
    /\ timer' = [timer EXCEPT ![i] = pollInterval]
    /\ calls' = [calls EXCEPT ![i] = IssueSleep(@)]
    /\ UNCHANGED <<caught, result>>

\* an error thrown inside the inner try reaches the inner catch
InnerCatch(i, pollError) ==
    LET c == PollCatch(attempt[i], pollError)
    IN  IF c.do = "throw"
        THEN /\ ToOuterCatch(i, c.error)
             /\ UNCHANGED <<timer, calls>>
        ELSE Sleep(i, "sleep137")

\* variant: the identifier is kept in one place shared by all invocations
StoreWebsetIdShared(i, id) == [j \in Invocations |-> Some(id)]

\* line 82: const websetId = createResponse.data.id
StoreWebsetId(i, id) == [websetId EXCEPT ![i] = Some(id)]

\* variant: the loop counter is not advanced
NextAttemptStuck(att) == att

\* line 103: attempt++
NextAttempt(att) == att + 1

\* variant: one loop counter shared by all invocations
AdvanceAttemptShared(i) == [j \in Invocations |-> NextAttempt(attempt[j])]

\* line 103: the loop counter is a local of the invocation
AdvanceAttempt(i) == [attempt EXCEPT ![i] = NextAttempt(@)]

\* lines 34-80: the handler is invoked and runs up to the creation call
handler(i, raw) ==
    /\ pc[i] = "idle"
    /\ request' = [request EXCEPT ![i] = Some(raw)]
    /\ args' = [args EXCEPT ![i] = Some(SchemaParse(raw))]
    /\ IF apiKeyMissing(EXA_API_KEY)
       THEN /\ Complete(i, Return(ConfigurationError))
            /\ UNCHANGED <<websetParams, calls>>
       ELSE /\ websetParams' = [websetParams EXCEPT
                                   ![i] = Some(websetParamsOf(SchemaParse(raw)))]
            /\ calls' = [calls EXCEPT ![i] = IssueCreate(@)]
            /\ pc' = [pc EXCEPT ![i] = "create"]
            /\ UNCHANGED result
    /\ UNCHANGED <<EXA_API_KEY, created, websetId, attempt, status, itemsResponse,
                   timer, caught, seen>>

\* lines 77-106: the creation call settles
createSettled(i) ==
    \E resp \in CreateResponses(created) :
        /\ pc[i] = "create"
        /\ created' = IF resp.ok THEN created + 1 ELSE created
        /\ IF resp.ok
           THEN /\ websetId' = StoreWebsetId(i, resp.data.id)
                /\ seen' = [seen EXCEPT ![i] = SeeCreated(@, resp.data.id)]
                /\ IF ReturnsImmediately(Val(args[i]))
                   THEN /\ Complete(i, Return(InitiatedOutcome(resp.data.id)))
                        /\ UNCHANGED <<attempt, calls>>
                   ELSE /\ attempt' = [attempt EXCEPT ![i] = 1]
                        /\ calls' = [calls EXCEPT ![i] = IssueStatus(@, resp.data.id)]
                        /\ pc' = [pc EXCEPT ![i] = "status"]
                        /\ UNCHANGED result
                /\ UNCHANGED caught
           ELSE /\ seen' = [seen EXCEPT ![i] = SeeRejected(@, "createErr")]
                /\ ToOuterCatch(i, resp.error)
                /\ UNCHANGED <<websetId, attempt, calls>>
        /\ UNCHANGED <<EXA_API_KEY, request, args, websetParams, status,
                       itemsResponse, timer>>

\* lines 106-138: a status check settles
statusSettled(i, resp) ==
    /\ pc[i] = "status"
    /\ IF resp.ok
       THEN /\ status' = [status EXCEPT ![i] = Some(resp.data.status)]
            /\ seen' = [seen EXCEPT ![i] = SeeStatus(@, resp.data.status, status[i])]
            /\ CASE StatusBranch(resp.data.status) = "fetch" ->
                      /\ calls' = [calls EXCEPT ![i] = IssueItems(@, Val(websetId[i]))]
                      /\ pc' = [pc EXCEPT ![i] = "items"]
                      /\ UNCHANGED <<timer, caught, result>>
                 [] StatusBranch(resp.data.status) = "throw" ->
                      InnerCatch(i, JobFailedError(resp.data.status))
                 [] OTHER -> Sleep(i, "sleep129")
       ELSE /\ seen' = [seen EXCEPT ![i] = SeeRejected(@, "statusErr")]
            /\ InnerCatch(i, resp.error)
            /\ UNCHANGED status
    /\ UNCHANGED <<EXA_API_KEY, created, request, args, websetParams, websetId,
                   attempt, itemsResponse>>

\* lines 114-138: the items call settles
itemsSettled(i, resp) ==
    /\ pc[i] = "items"
    /\ IF resp.ok
       THEN /\ itemsResponse' = [itemsResponse EXCEPT ![i] = Some(resp.data)]
            /\ seen' = [seen EXCEPT ![i] = SeeItems(@)]
            /\ Complete(i, Return(ItemsOutcome(resp.data)))
            /\ UNCHANGED <<timer, caught, calls>>
       ELSE /\ seen' = [seen EXCEPT ![i] = SeeRejected(@, "itemsErr")]
            /\ InnerCatch(i, resp.error)
            /\ UNCHANGED itemsResponse
    /\ UNCHANGED <<EXA_API_KEY, created, request, args, websetParams, websetId,
                   attempt, status>>

\* lines 103-106 and 141-143: a delay elapses, the loop counter is
\* incremented and the loop condition is tested
sleepElapsed(i) ==
    /\ pc[i] \in {"sleep129", "sleep137"}
    /\ timer' = [timer EXCEPT ![i] = 0]
    /\ attempt' = AdvanceAttempt(i)
    /\ IF LoopCondition(NextAttempt(attempt[i]))
       THEN /\ calls' = [calls EXCEPT ![i] = IssueStatus(@, Val(websetId[i]))]
            /\ pc' = [pc EXCEPT ![i] = "status"]
            /\ UNCHANGED <<caught, result>>
       ELSE /\ ToOuterCatch(i, TimedOutError)
            /\ UNCHANGED calls
    /\ UNCHANGED <<EXA_API_KEY, created, request, args, websetParams, websetId,
                   status, itemsResponse, seen>>

Next ==
    \E i \in Solo :
        \/ \E raw \in schema : handler(i, raw)
        \/ createSettled(i)
        \/ \E resp \in StatusResponses : statusSettled(i, resp)
        \/ \E resp \in ItemsResponses : itemsSettled(i, resp)
        \/ sleepElapsed(i)

Spec == Init /\ [][Next]_vars

(* The remote calls settle and the delays elapse: fairness of the event loop
   on every await of the handler.  Requests without optional inputs. *)
PlainRequests ==
    {raw \in schema :
        /\ raw.count = Undefined /\ raw.criteria = Undefined
        /\ raw.entityType = Undefined /\ raw.enrichments = Undefined
        /\ raw.metadata = Undefined}

Settle(i) ==
    \/ createSettled(i)
    \/ \E resp \in StatusResponses : statusSettled(i, resp)
    \/ \E resp \in ItemsResponses : itemsSettled(i, resp)
    \/ sleepElapsed(i)

NextLive ==
    \E i \in Solo :
        \/ \E raw \in PlainRequests : handler(i, raw)
        \/ Settle(i)

SpecLive == Init /\ [][NextLive]_vars /\ \A i \in Solo : WF_vars(Settle(i))

(* Two invocations interleaved at their awaits, against a remote that
   answers 'running' or 'completed', or rejects the call. *)
ConcRequests == {raw \in PlainRequests : IsDefined(raw.waitForCompletion)}

NetworkError ==
    [isAxiosError |-> TRUE, message |-> "Network Error", response |-> Undefined]

ConcStatusResponses ==
    {Ok([status |-> s]) : s \in {"running", "completed"}} \cup {Rejected(NetworkError)}

ConcItemsResponses == {Ok([items |-> <<>>]), Rejected(NetworkError)}

NextConc ==
    \E i \in Invocations :
        \/ \E raw \in ConcRequests : handler(i, raw)
        \/ createSettled(i)
        \/ \E resp \in ConcStatusResponses : statusSettled(i, resp)
        \/ \E resp \in ConcItemsResponses : itemsSettled(i, resp)
        \/ sleepElapsed(i)

SpecConc == Init /\ [][NextConc]_vars

-----------------------------------------------------------------------------
(* Vocabulary of the properties *)

Returned(i) == pc[i] = "returned"

Outcome(i) == Val(result[i])

HasErrorMarker(o) == "isError" \in DOMAIN o /\ o.isError = TRUE

TextOf(o) == o.content[1].text

Invoked(i) == IsDefined(args[i])

Waits(i) == Invoked(i) /\ Val(args[i]).waitForCompletion

InFlight(i) == pc[i] \in {"create", "status", "items"}

Sleeping(i) == pc[i] \in {"sleep129", "sleep137"}

Reported(i, S) == IsDefined(status[i]) /\ Val(status[i]) \in S

\* every status check answered so far reported 'running' and no call failed
AllRunning(i) == seen[i].clean /\ ~Reported(i, {"completed", "idle"})

-----------------------------------------------------------------------------
(* C1: once a status check has reported 'failed' or 'error', the invocation
   issues no further status check, no items call and takes no delay: that
   status check stays its last remote call. *)
C1_AbortOnFailedStatus ==
    \A i \in Invocations :
        seen[i].failRep # "" =>
            /\ ~InFlight(i)
            /\ ~Sleeping(i)
            /\ calls[i].last = "status"
            /\ calls[i].sinceStatus = 0

(* C2: an invocation in which a status check reported 'failed' or 'error'
   returns a failure outcome whose message names that status. *)
C2_FailureOutcomeNamesStatus ==
    \A i \in Invocations :
        (Returned(i) /\ seen[i].failRep # "") =>
            /\ HasErrorMarker(Outcome(i))
            /\ TextOf(Outcome(i)) =
                 "WebSet operation failed: WebSet research failed with status: "
                 \o seen[i].failRep

(* C3: when every remote call succeeds and the first completion-equivalent
   status comes at attempt k after k-1 'running' reports, the invocation has
   issued exactly k status checks, then exactly one items call, and returns a
   success outcome whose text is the items response, unmodified. *)
C3_CleanCompletion ==
    \A i \in Invocations :
        (seen[i].clean /\ Reported(i, {"completed", "idle"})) =>
            /\ pc[i] \in {"items", "returned"}
            /\ attempt[i] \in 1..12
            /\ calls[i].status = attempt[i]
            /\ calls[i].sleep = attempt[i] - 1
            /\ calls[i].items = 1
            /\ calls[i].last = "items"
            /\ calls[i].url = ItemsUrl(Val(websetId[i]))
            /\ Returned(i) =>
                 /\ "isError" \notin DOMAIN Outcome(i)
                 /\ TextOf(Outcome(i)) = StringifyItemsResponse(Val(itemsResponse[i]))
                 /\ \A d \in ExaWebsetItemsResponse :
                        StringifyItemsResponse(d) = TextOf(Outcome(i))
                            => d = Val(itemsResponse[i])

C3_Witness ==
    /\ Returned(1)
    /\ seen[1].clean
    /\ Reported(1, {"completed"})
    /\ attempt[1] = 3
    /\ Len(Val(itemsResponse[1]).items) = 1

(* C4: no invocation issues more than 12 status checks; when all 12 report
   'running' the invocation ends with the timeout failure, has called the
   items endpoint never, and has taken exactly one fixed delay between every
   two consecutive status checks. *)
C4_BoundedPolling ==
    \A i \in Invocations :
        /\ calls[i].status <= 12
        /\ Sleeping(i) => timer[i] = 5000
        /\ (AllRunning(i) /\ calls[i].status >= 2) => calls[i].between = 1
        /\ (AllRunning(i) /\ calls[i].status = 12 /\ pc[i] # "status") =>
              /\ pc[i] \in {"sleep129", "returned"}
              /\ calls[i].items = 0
              /\ calls[i].last = "status"
              /\ Returned(i) =>
                   /\ HasErrorMarker(Outcome(i))
                   /\ TextOf(Outcome(i)) =
                        "WebSet operation failed: WebSet research timed out."

C4_Witness ==
    /\ Returned(1)
    /\ AllRunning(1)
    /\ Reported(1, {"running"})
    /\ calls[1].status = 12

(* C5: a status check rejected at attempt k < 12 is followed by exactly one
   fixed delay and then by attempt k+1; rejected at attempt 12 it ends the
   invocation with the attempts-exhausted failure and no further call; and a
   completion reported after tolerated rejections still yields success. *)
C5_TransportFailureTolerated ==
    [][\A i \in Invocations :
         /\ (pc[i] = "status" /\ pc'[i] # "status" /\ seen'[i].resp = "statusErr"
               /\ attempt[i] < 12) =>
              /\ pc'[i] = "sleep137"
              /\ timer'[i] = 5000
              /\ calls'[i].sleep = calls[i].sleep + 1
              /\ calls'[i].status = calls[i].status
              /\ calls'[i].items = calls[i].items
         /\ (pc[i] = "status" /\ pc'[i] # "status" /\ seen'[i].resp = "statusErr"
               /\ attempt[i] = 12) =>
              /\ pc'[i] = "returned"
              /\ calls'[i] = calls[i]
              /\ HasErrorMarker(Val(result'[i]))
              /\ TextOf(Val(result'[i])) =
                   "WebSet operation failed: Failed to get WebSet status after 12 attempts."
         /\ (pc[i] = "sleep137" /\ pc'[i] # "sleep137") =>
              /\ pc'[i] = "status"
              /\ attempt'[i] = attempt[i] + 1
              /\ calls'[i].status = calls[i].status + 1
              /\ calls'[i].sleep = calls[i].sleep
         /\ (pc[i] = "items" /\ pc'[i] # "items" /\ seen'[i].resp = "items") =>
              /\ pc'[i] = "returned"
              /\ "isError" \notin DOMAIN Val(result'[i])
              /\ TextOf(Val(result'[i])) =
                   StringifyItemsResponse(Val(itemsResponse'[i]))
      ]_vars

C5_Witness ==
    /\ Returned(1)
    /\ seen[1].statusErr
    /\ seen[1].resp = "items"
    /\ "isError" \notin DOMAIN Outcome(1)

(* C6: with waitForCompletion false and a successful creation, the invocation
   has returned right after the creation call: one creation call, no status
   check, no items call, no delay, and a success outcome carrying the created
   identifier and the status marker "running". *)
C6_NonWaitingReturnsAtOnce ==
    \A i \in Invocations :
        (Invoked(i) /\ ~Val(args[i]).waitForCompletion /\ IsDefined(websetId[i])) =>
            /\ Returned(i)
            /\ calls[i] = [NoCalls EXCEPT !.create = 1, !.last = "create",
                                          !.url = CreateUrl]
            /\ attempt[i] = 0
            /\ timer[i] = 0
            /\ Val(websetId[i]) \in {WebsetIdOf(n) : n \in 1..created}
            /\ "isError" \notin DOMAIN Outcome(i)
            /\ TextOf(Outcome(i)) =
                 "{\n  \"message\": \"WebSet research initiated successfully.\",\n"
                 \o "  \"websetId\": \"" \o Val(websetId[i]) \o "\",\n"
                 \o "  \"status\": \"running\"\n}"

C6_Witness ==
    /\ Returned(1)
    /\ ~Val(args[1]).waitForCompletion
    /\ websetId[1] = Some(WebsetIdOf(1))

(* C7: with the credential unset or empty, an invocation issues no remote
   call of any kind and returns the configuration-error failure outcome. *)
C7_MissingCredential ==
    \A i \in Invocations :
        (EXA_API_KEY \in {Undefined, Some("")} /\ pc[i] # "idle") =>
            /\ Returned(i)
            /\ calls[i] = NoCalls
            /\ created = 0
            /\ websetParams[i] = Undefined
            /\ HasErrorMarker(Outcome(i))
            /\ TextOf(Outcome(i)) = "Configuration error: EXA_API_KEY is missing."

C7_Witness ==
    /\ EXA_API_KEY = Some("")
    /\ Returned(1)
    /\ HasErrorMarker(Outcome(1))

(* C8: an invocation never ends by an escaping error; once it has ended it
   holds exactly one structured outcome, which carries the error marker
   exactly when the invocation did not end completed (items returned) or
   dispatched (non-waiting, created). *)
C8_AlwaysStructuredOutcome ==
    \A i \in Invocations :
        /\ pc[i] # "threw"
        /\ IsDefined(result[i]) <=> Returned(i)
        /\ Returned(i) =>
             /\ Len(result[i]) = 1
             /\ DOMAIN Outcome(i) \subseteq {"content", "isError"}
             /\ Len(Outcome(i).content) = 1
             /\ Outcome(i).content[1].type = "text"
             /\ HasErrorMarker(Outcome(i)) <=>
                  ~ \/ seen[i].resp = "items"
                    \/ seen[i].resp = "created" /\ ~Waits(i)

C8_Witness ==
    /\ Returned(1)
    /\ seen[1].resp = "itemsErr"
    /\ attempt[1] = 12
    /\ HasErrorMarker(Outcome(1))

(* C9: every optional input that is absent is omitted from the creation
   payload; a request with only a query yields the payload holding only
   search.query; an absent or empty enrichment list yields no enrichments
   key. *)
C9_AbsentInputsOmitted ==
    \A i \in Invocations :
        IsDefined(websetParams[i]) =>
            LET a == Val(args[i])
                p == Val(websetParams[i])
            IN  /\ DOMAIN p \subseteq
                     {"search", "criteria", "entity", "enrichments", "metadata"}
                /\ DOMAIN p.search \subseteq {"query", "count"}
                /\ p.search.query = a.query
                /\ ~IsDefined(a.count) => "count" \notin DOMAIN p.search
                /\ ~IsDefined(a.criteria) => "criteria" \notin DOMAIN p
                /\ ~IsDefined(a.entityType) => "entity" \notin DOMAIN p
                /\ ~IsDefined(a.metadata) => "metadata" \notin DOMAIN p
                /\ (~IsDefined(a.enrichments) \/ a.enrichments = Some(<<>>))
                      => "enrichments" \notin DOMAIN p
                /\ (/\ ~IsDefined(a.count) /\ ~IsDefined(a.criteria)
                    /\ ~IsDefined(a.entityType) /\ ~IsDefined(a.enrichments)
                    /\ ~IsDefined(a.metadata))
                      => p = [search |-> [query |-> a.query]]

C9_Witness ==
    /\ pc[1] = "create"
    /\ ~IsDefined(Val(args[1]).count)
    /\ Val(args[1]).enrichments = Some(<<>>)
    /\ IsDefined(Val(args[1]).criteria)
    /\ DOMAIN Val(websetParams[1]) = {"search", "criteria"}

(* C10: every optional input set to a value the schema accepts appears in
   the creation payload under its key with that value. *)
C10_ProvidedInputsIncluded ==
    \A i \in Invocations :
        IsDefined(websetParams[i]) =>
            LET a == Val(args[i])
                p == Val(websetParams[i])
            IN  /\ IsDefined(a.count) =>
                      "count" \in DOMAIN p.search /\ p.search.count = Val(a.count)
                /\ IsDefined(a.criteria) =>
                      "criteria" \in DOMAIN p /\ p.criteria = Val(a.criteria)
                /\ IsDefined(a.entityType) =>
                      "entity" \in DOMAIN p /\ p.entity.type = Val(a.entityType)
                /\ IsDefined(a.metadata) =>
                      "metadata" \in DOMAIN p /\ p.metadata = Val(a.metadata)
                /\ (IsDefined(a.enrichments) /\ Val(a.enrichments) # <<>>) =>
                      "enrichments" \in DOMAIN p /\ p.enrichments = Val(a.enrichments)

-----------------------------------------------------------------------------
\* the text of an API error: remote status code and remote message where
\* the remote supplied them, else 'unknown' and the text of the error
ApiErrorText(e) ==
    LET code == IF IsDefined(e.response)
                THEN ToString(Val(e.response).status)
                ELSE "unknown"
        text == IF IsDefined(e.response) /\ "message" \in DOMAIN Val(e.response).data
                THEN Val(e.response).data.message
                ELSE e.message
    IN  "WebSet API error (" \o code \o "): " \o text

(* C11: when the creation call is rejected, the invocation issues no status
   check and no items call and returns a failure outcome: an API error with
   the remote status code and the remote message where the remote supplied
   them, else with the text of the underlying error. *)
C11_CreationRejected ==
    \A i \in Invocations :
        seen[i].resp = "createErr" =>
            /\ Returned(i)
            /\ calls[i] = [NoCalls EXCEPT !.create = 1, !.last = "create",
                                          !.url = CreateUrl]
            /\ websetId[i] = Undefined
            /\ HasErrorMarker(Outcome(i))
            /\ IsDefined(caught[i])
            /\ TextOf(Outcome(i)) = ApiErrorText(Val(caught[i]))

C11_Witness ==
    /\ seen[1].resp = "createErr"
    /\ Returned(1)
    /\ TextOf(Outcome(1)) = "WebSet API error (500): internal error"

(* C12: a request that leaves waitForCompletion unspecified is handled as
   one that sets it to true: after a successful creation the invocation has
   issued a status check and has not returned the identifier at once. *)
C12_WaitDefaultsToTrue ==
    \A i \in Invocations :
        (IsDefined(request[i]) /\ Val(request[i]).waitForCompletion = Undefined) =>
            /\ args[i] = Some([Val(request[i]) EXCEPT !.waitForCompletion = TRUE])
            /\ IsDefined(websetId[i]) =>
                 /\ calls[i].status >= 1
                 /\ attempt[i] >= 1
                 /\ ~(Returned(i) /\ seen[i].resp = "created")

C12_Witness ==
    /\ IsDefined(request[1])
    /\ Val(request[1]).waitForCompletion = Undefined
    /\ pc[1] = "status"
    /\ attempt[1] = 1

(* C13: every status check and items call of an invocation targets the
   identifier its own creation call returned, none is issued before the
   creation succeeded, and no invocation uses the identifier of another. *)
C13_OwnJobHandle ==
    \A i \in Invocations :
        /\ IsDefined(websetId[i]) => websetId[i] = Some(seen[i].id)
        /\ (calls[i].status > 0 \/ calls[i].items > 0
              \/ calls[i].last \in {"status", "items"}) =>
             /\ seen[i].id # ""
             /\ websetId[i] = Some(seen[i].id)
             /\ calls[i].last \in {"status", "items"}
             /\ calls[i].last = "status" => calls[i].url = StatusUrl(seen[i].id)
             /\ calls[i].last = "items" => calls[i].url = ItemsUrl(seen[i].id)
             /\ \A j \in Invocations \ {i} :
                    seen[j].id # "" =>
                        /\ seen[j].id # seen[i].id
                        /\ calls[i].url \notin {StatusUrl(seen[j].id), ItemsUrl(seen[j].id)}

C13_Witness ==
    /\ pc[1] = "status"
    /\ pc[2] = "items"
    /\ attempt[1] > 1
    /\ seen[1].id # seen[2].id

(* C14: provided every remote call settles and every delay elapses, an
   invocation that has started eventually returns. *)
C14_EventuallyReturns ==
    \A i \in Invocations : (pc[i] # "idle") ~> Returned(i)

C14_Witness ==
    /\ Returned(1)
    /\ attempt[1] = 13
    /\ calls[1].status = 12

(* C15: 'idle' and 'completed' are handled by one and the same step (the
   items call, no delay), whose effect and outcome do not depend on which of
   the two was reported; a status other than completed, idle, failed or
   error leads to one delay and then the next attempt. *)
C15_IdleAsCompleted ==
    [][\A i \in Invocations :
         LET answered == /\ pc[i] = "status"
                         /\ pc'[i] # "status"
                         /\ seen'[i].resp = "status"
             s == Val(status'[i])
         IN  /\ (answered /\ s \in {"completed", "idle"}) =>
                  /\ pc'[i] = "items"
                  /\ calls'[i] = [calls[i] EXCEPT !.items = @ + 1, !.last = "items",
                                                  !.url = ItemsUrl(Val(websetId[i]))]
                  /\ timer'[i] = timer[i]
                  /\ attempt'[i] = attempt[i]
                  /\ result'[i] = result[i]
             /\ (answered /\ s \notin {"completed", "idle", "failed", "error"}) =>
                  /\ pc'[i] = "sleep129"
                  /\ timer'[i] = 5000
                  /\ calls'[i] = [calls[i] EXCEPT !.sleep = @ + 1, !.sinceStatus = 1]
                  /\ attempt'[i] = attempt[i]
                  /\ result'[i] = result[i]
             /\ (pc[i] = "sleep129" /\ pc'[i] # "sleep129" /\ attempt[i] < 12) =>
                  /\ pc'[i] = "status"
                  /\ attempt'[i] = attempt[i] + 1
                  /\ calls'[i].status = calls[i].status + 1
             /\ (pc[i] = "items" /\ pc'[i] # "items" /\ seen'[i].resp = "items") =>
                  result'[i] = Some([content |->
                      <<[type |-> "text",
                         text |-> StringifyItemsResponse(Val(itemsResponse'[i]))]>>])
      ]_vars

C15_Witness ==
    /\ Returned(1)
    /\ Reported(1, {"idle"})
    /\ seen[1].resp = "items"
    /\ "isError" \notin DOMAIN Outcome(1)

(* C16: the items endpoint is called at most once per invocation; a rejected
   items call ends the invocation with a failure outcome and is followed by
   no further call. *)
C16_ItemsCalledAtMostOnce ==
    \A i \in Invocations :
        /\ calls[i].items <= 1
        /\ seen[i].resp = "itemsErr" =>
             /\ Returned(i)
             /\ HasErrorMarker(Outcome(i))
             /\ calls[i].last = "items"

(* C17: a waiting invocation returns a success outcome only if its latest
   status check was answered with 'completed' or 'idle' and the items call
   that followed it succeeded: never after a rejected creation, never past
   the attempt ceiling, never without a completion-equivalent report. *)
C17_SuccessOnlyAfterCompletion ==
    \A i \in Invocations :
        (Returned(i) /\ Waits(i) /\ ~HasErrorMarker(Outcome(i))) =>
            /\ seen[i].id # ""
            /\ seen[i].statusOk
            /\ Reported(i, {"completed", "idle"})
            /\ seen[i].resp = "items"
            /\ calls[i].last = "items"
            /\ IsDefined(itemsResponse[i])
            /\ attempt[i] \in 1..12
            /\ calls[i].status = attempt[i]
            /\ caught[i] = Undefined

C17_Witness ==
    /\ Returned(1)
    /\ Waits(1)
    /\ ~HasErrorMarker(Outcome(1))
    /\ attempt[1] = 12
    /\ seen[1].statusErr

(* C18: at most 12 delays and never more delays than status checks; a delay
   is taken only after a status check that was answered without a
   completion-equivalent status, or that was rejected on a non-final
   attempt; none in the non-waiting and missing-credential paths. *)
C18_DelaysOnlyWhilePolling ==
    \A i \in Invocations :
        /\ calls[i].sleep <= 12
        /\ calls[i].sleep <= calls[i].status
        /\ calls[i].sleep > 0 => Waits(i) /\ ~apiKeyMissing(EXA_API_KEY)
        /\ Sleeping(i) =>
             \/ seen[i].resp = "status" /\ ~Reported(i, {"completed", "idle"})
             \/ seen[i].resp = "statusErr" /\ attempt[i] < 12

(* C19: with two invocations interleaved at their awaits, a step of one
   leaves the attempt counter, the identifier and every other local of the
   other unchanged, and each invocation's calls and outcome are those its
   own answers determine, as when it runs alone. *)
Local(i) ==
    <<pc[i], request[i], args[i], websetParams[i], websetId[i], attempt[i],
      status[i], itemsResponse[i], timer[i], caught[i], result[i], calls[i], seen[i]>>

SoloOutcome(i) ==
    CASE seen[i].resp = "none" ->
           [content |-> TextContent("Configuration error: EXA_API_KEY is missing."),
            isError |-> TRUE]
      [] seen[i].resp = "created" ->
           [content |-> TextContent(StringifyInitiated(seen[i].id))]
      [] seen[i].resp = "createErr" ->
           [content |-> TextContent(ApiErrorText(Val(caught[i]))), isError |-> TRUE]
      [] seen[i].resp = "items" ->
           [content |-> TextContent(StringifyItemsResponse(Val(itemsResponse[i])))]
      [] OTHER ->
           IF attempt[i] > 12
           THEN [content |-> TextContent(
                    "WebSet operation failed: WebSet research timed out."),
                 isError |-> TRUE]
           ELSE [content |-> TextContent(
                    "WebSet operation failed: Failed to get WebSet status after 12 attempts."),
                 isError |-> TRUE]

SoloCalls(i) ==
    /\ calls[i].create = (IF pc[i] = "idle" \/ (seen[i].resp = "none" /\ Returned(i))
                          THEN 0 ELSE 1)
    /\ calls[i].status = (IF attempt[i] > 12 THEN 12 ELSE attempt[i])
    /\ calls[i].sleep = (IF attempt[i] = 0 THEN 0
                         ELSE attempt[i] - 1 + (IF Sleeping(i) THEN 1 ELSE 0))
    /\ calls[i].items <= calls[i].status

C19_InvocationsIndependent ==
    [][/\ \E i \in Invocations :
              \A j \in Invocations \ {i} : Local(j)' = Local(j)
       /\ \A i \in Invocations :
              /\ SoloCalls(i)'
              /\ Returned(i)' => Outcome(i)' = SoloOutcome(i)'
      ]_vars

C19_Witness ==
    /\ Returned(1)
    /\ Returned(2)
    /\ seen[1].resp = "items"
    /\ calls[1].items = 2
    /\ attempt[2] = 13

====
